---- MODULE Spec2Model ----
(***************************************************************************)
(* Model of Lab03S01/github_pr_analysis.py: the retrying HTTP executor     *)
(* (fazer_requisicao_com_retry), repository discovery                      *)
(* (buscar_repositorios_populares / obter_numero_prs_fechados), the        *)
(* pull-request collector (coletar_dados_pr) and the driver (main).        *)
(*                                                                         *)
(* The program is sequential.  One step of the model is either one GET     *)
(* attempt of the executor (the remote API answers nondeterministically)   *)
(* or the stretch of caller code between two executor calls.               *)
(*                                                                         *)
(* The remote side: the search endpoint ranks repositories 1..NumRepos and *)
(* every repository lists pull requests 1..NumPRs; both are served in      *)
(* pages of PerPage items, a page past the end being an empty list.        *)
(* Timestamps are in seconds, so a review time of one hour is 3600.        *)
(***************************************************************************)
EXTENDS Integers, Sequences, FiniteSets, TLC

\* ---- bounds of the model (scaled-down limits and the size of the remote)
REPOS_LIMIT == 2
PRS_LIMIT == 2
NumRepos == 3
NumPRs == 3
PerPage == 2

\* ---- program constants
MAX_RETRIES == 3
MIN_PRS_COUNT == 100

\* Search pages from MaxPage on are all empty: the page counter of the
\* discovery loop is kept at MaxPage once it gets there.
MaxPage == (NumRepos \div PerPage) + 2

Max(a, b) == IF a >= b THEN a ELSE b
Min(a, b) == IF a <= b THEN a ELSE b

\* ---- exceptions
RequestException == {"HTTPError", "ConnectionError"}
NoExc == "none"

\* ---- the remote API ---------------------------------------------------
\* Items lo..hi of a listing of `total` items, as one page.
PageSlice(total, p) ==
    LET lo == (p - 1) * PerPage + 1
        hi == Min(p * PerPage, total)
    IN  IF lo > hi THEN << >> ELSE [i \in 1..(hi - lo + 1) |-> lo + i - 1]

\* Response headers are records that may lack a key.
HeaderGet(h, key, default) == IF key \in DOMAIN h THEN h[key] ELSE default

\* NoRateHeaders carries neither X-RateLimit-Remaining nor X-RateLimit-Reset.
NoRateHeaders == [Accept |-> 1]
OkHeaders == { [Remaining |-> 9, Reset |-> 13],
               [Remaining |-> 10, Reset |-> 13],
               NoRateHeaders }
LimitHeaders == { [Reset |-> 13] }
Clock == {10}
ErrorStatus == {404}

\* Link header of the one-per-page listing: number of the last page, when
\* the header is there.
LinkHeaders == { [Remaining |-> 10, Reset |-> 13],
                 [Remaining |-> 10, Reset |-> 13, Link |-> 99],
                 [Remaining |-> 10, Reset |-> 13, Link |-> 100],
                 [Remaining |-> 9, Reset |-> 13, Link |-> 100] }

DetailBodies == { [created_at |-> 0, closed_at |-> 3599],
                  [created_at |-> 0, closed_at |-> 3600],
                  [closed_at |-> 3600] }
ReviewBodies == { << >>, << "bob" >> }

VARIABLES
    pc,             \* position of the program
    \* executor (fazer_requisicao_com_retry)
    xst,            \* "idle", "get", "returned", "raised"
    tentativa,      \* loop index
    gets,           \* GET requests issued by the current call
    n403,           \* answers of the current call handled as rate limits
    response,       \* last response of the current call
    now,            \* time.time() read for the last pause
    slept,          \* pause made in the last attempt (0: none)
    exc,            \* exception in flight
    \* buscar_repositorios_populares
    repos, busca_page, items, item_i, busca_pr_count,
    \* main
    header, rows, repo_index, page, pr_count, prs, pr_i,
    analysed,       \* repositories announced by "Analisando repositorio"
    failed,         \* repositories named by "Erro ao buscar PRs"
    \* coletar_dados_pr
    pr_data, reviews, pr_result

execVars == << xst, tentativa, gets, n403, response, now, slept, exc >>
buscaVars == << repos, busca_page, items, item_i, busca_pr_count >>
mainVars == << header, rows, repo_index, page, pr_count, prs, pr_i, analysed, failed >>
coletaVars == << pr_data, reviews, pr_result >>
vars == << pc, execVars, buscaVars, mainVars, coletaVars >>

NoResponse == [status |-> 0, headers |-> NoRateHeaders, body |-> << >>]
None == [none |-> TRUE]
NoData == [closed_at |-> 0]

RequestPcs == {"buscar_get", "obter_get", "list_get", "detail_get", "reviews_get"}
BuscaPcs == {"buscar_while", "buscar_get", "buscar_for", "obter_get", "buscar_if"}

\* ---- fazer_requisicao_com_retry ---------------------------------------
\* variant: every client or server error status is taken for a rate limit
IsRateLimit_AnyError(status) == status >= 400

IsRateLimit(status) == status = 403

NearLimit(remaining) == remaining < 10

\* variant: the one-second margin is left out
SleepTime_NoMargin(reset_time, t) == Max(reset_time - t, 0)

SleepTime(reset_time, t) == Max(reset_time - t, 0) + 1

\* variant: one round too many
LastAttempt_OneMore(t) == t >= MAX_RETRIES

LastAttempt(t) == t + 1 >= MAX_RETRIES

\* entering the function
StartCall ==
    /\ xst' = "get"
    /\ tentativa' = 0
    /\ gets' = 0
    /\ n403' = 0
    /\ response' = NoResponse
    /\ now' = 0
    /\ slept' = 0
    /\ exc' = NoExc

\* the frame is gone
EndCall ==
    /\ xst' = "idle"
    /\ tentativa' = 0
    /\ gets' = 0
    /\ n403' = 0
    /\ response' = NoResponse
    /\ now' = 0
    /\ slept' = 0
    /\ exc' = NoExc

BodiesFor(p) ==
    CASE p = "buscar_get"  -> { PageSlice(NumRepos, busca_page) }
      [] p = "obter_get"   -> { << >> }
      [] p = "list_get"    -> { PageSlice(NumPRs, page) }
      [] p = "detail_get"  -> DetailBodies
      [] p = "reviews_get" -> ReviewBodies

HeadersFor(p) == IF p = "obter_get" THEN LinkHeaders ELSE OkHeaders

\* GET answered 2xx
GetOk ==
    /\ pc \in RequestPcs /\ xst = "get"
    /\ \E h \in HeadersFor(pc), b \in BodiesFor(pc), t \in Clock :
         LET remaining == HeaderGet(h, "Remaining", 0)
             reset_time == HeaderGet(h, "Reset", 0)
         IN  /\ response' = [status |-> 200, headers |-> h, body |-> b]
             /\ IF NearLimit(remaining)
                  THEN now' = t /\ slept' = SleepTime(reset_time, t)
                  ELSE now' = 0 /\ slept' = 0
    /\ gets' = gets + 1
    /\ xst' = "returned"
    /\ UNCHANGED << pc, tentativa, n403, exc, buscaVars, mainVars, coletaVars >>

\* GET answered with an HTTP error status: 403 waits for the reset and
\* goes round the loop (the loop running out raises the retry exhaustion),
\* any other status is re-raised
GetHTTPError ==
    /\ pc \in RequestPcs /\ xst = "get"
    /\ \E s \in {403} \cup ErrorStatus, t \in Clock :
       \E h \in (IF s = 403 THEN LimitHeaders ELSE {NoRateHeaders}) :
         /\ response' = [status |-> s, headers |-> h, body |-> << >>]
         /\ IF IsRateLimit(s)
              THEN /\ now' = t
                   /\ slept' = SleepTime(HeaderGet(h, "Reset", 0), t)
                   /\ n403' = n403 + 1
                   /\ tentativa' = tentativa + 1
                   /\ IF LastAttempt(tentativa)
                        THEN xst' = "raised" /\ exc' = "RetryExhausted"
                        ELSE xst' = "get" /\ exc' = NoExc
              ELSE /\ now' = 0
                   /\ slept' = 0
                   /\ UNCHANGED << n403, tentativa >>
                   /\ xst' = "raised"
                   /\ exc' = "HTTPError"
    /\ gets' = gets + 1
    /\ UNCHANGED << pc, buscaVars, mainVars, coletaVars >>

\* GET fails without a response (requests.ConnectionError)
GetConnectionError ==
    /\ pc \in RequestPcs /\ xst = "get"
    /\ gets' = gets + 1
    /\ response' = NoResponse
    /\ now' = 0
    /\ slept' = 0
    /\ xst' = "raised"
    /\ exc' = "ConnectionError"
    /\ UNCHANGED << pc, tentativa, n403, buscaVars, mainVars, coletaVars >>

\* ---- obter_numero_prs_fechados ----------------------------------------
\* The page number of the last link of the Link header, 0 without header.
TotalPrs(h) == HeaderGet(h, "Link", 0)

\* ---- buscar_repositorios_populares ------------------------------------
\* variant: the threshold is not applied
Qualifies_Any(count) == count >= 0

Qualifies(count) == count >= MIN_PRS_COUNT

TargetReached(rs) == Len(rs) >= REPOS_LIMIT

NextSearchPage(p) == IF p < MaxPage THEN p + 1 ELSE p

Take(s, n) == SubSeq(s, 1, Min(Len(s), n))

\* while len(repos) < quantidade: ... ; return repos[:quantidade]
BuscarWhile ==
    /\ pc = "buscar_while"
    /\ IF ~TargetReached(repos)
         THEN /\ pc' = "buscar_get"
              /\ StartCall
              /\ UNCHANGED << repos, busca_page >>
         ELSE /\ pc' = "main_open"
              /\ repos' = Take(repos, REPOS_LIMIT)
              /\ busca_page' = 1
              /\ UNCHANGED execVars
    /\ UNCHANGED << items, item_i, busca_pr_count, mainVars, coletaVars >>

\* the search request came back: data["items"]
BuscarPage ==
    /\ pc = "buscar_get" /\ xst = "returned"
    /\ items' = response.body
    /\ item_i' = 1
    /\ pc' = "buscar_for"
    /\ EndCall
    /\ UNCHANGED << repos, busca_page, busca_pr_count, mainVars, coletaVars >>

\* the search request raised: RequestException ends the paging, anything
\* else leaves the function and main
BuscarExcept ==
    /\ pc = "buscar_get" /\ xst = "raised"
    /\ IF exc \in RequestException
         THEN /\ pc' = "main_open"
              /\ repos' = Take(repos, REPOS_LIMIT)
              /\ busca_page' = 1
              /\ EndCall
         ELSE /\ pc' = "crashed"
              /\ UNCHANGED << repos, busca_page >>
              /\ UNCHANGED execVars
    /\ items' = << >>
    /\ item_i' = 1
    /\ UNCHANGED << busca_pr_count, mainVars, coletaVars >>

\* for repo in data["items"]: pr_count = obter_numero_prs_fechados(...)
BuscarFor ==
    /\ pc = "buscar_for"
    /\ IF item_i <= Len(items)
         THEN /\ pc' = "obter_get"
              /\ StartCall
              /\ UNCHANGED << busca_page, items, item_i >>
         ELSE /\ pc' = "buscar_while"
              /\ busca_page' = NextSearchPage(busca_page)
              /\ items' = << >>
              /\ item_i' = 1
              /\ UNCHANGED execVars
    /\ UNCHANGED << repos, busca_pr_count, mainVars, coletaVars >>

\* obter_numero_prs_fechados returns: the count, or 0 on any exception
ObterReturn ==
    /\ pc = "obter_get" /\ xst \in {"returned", "raised"}
    /\ busca_pr_count' = IF xst = "returned" THEN TotalPrs(response.headers) ELSE 0
    /\ pc' = "buscar_if"
    /\ EndCall
    /\ UNCHANGED << repos, busca_page, items, item_i, mainVars, coletaVars >>

\* if pr_count >= MIN_PRS_COUNT: append; if len(repos) >= quantidade: break
BuscarIf ==
    /\ pc = "buscar_if"
    /\ LET rs == IF Qualifies(busca_pr_count)
                   THEN Append(repos, items[item_i]) ELSE repos
       IN  /\ repos' = rs
           /\ IF TargetReached(rs)
                THEN /\ pc' = "buscar_while"
                     /\ busca_page' = NextSearchPage(busca_page)
                     /\ items' = << >>
                     /\ item_i' = 1
                ELSE /\ pc' = "buscar_for"
                     /\ item_i' = item_i + 1
                     /\ UNCHANGED << busca_page, items >>
    /\ busca_pr_count' = 0
    /\ UNCHANGED << execVars, mainVars, coletaVars >>

\* ---- coletar_dados_pr -------------------------------------------------
NoReviews(rv) == Len(rv) = 0

\* (closed_at - created_at).total_seconds(), the review time being this
\* over 3600; a payload without one of the keys raises KeyError
HasTimes(d) == {"created_at", "closed_at"} \subseteq DOMAIN d

ReviewSeconds(d) == d.closed_at - d.created_at

\* variant: the threshold compared in the wrong unit
TooFast_WrongUnit(seconds) == seconds < 1

TooFast(seconds) == seconds < 3600

Record(repo_name, pr_number, d) ==
    [repo_name |-> repo_name, pr_number |-> pr_number,
     review_seconds |-> ReviewSeconds(d)]

\* what the body of the try block evaluates to, once both requests are in
Coletar(repo_name, pr_number, d, rv) ==
    IF NoReviews(rv) THEN None
    ELSE IF ~HasTimes(d) THEN None          \* except KeyError
    ELSE IF TooFast(ReviewSeconds(d)) THEN None
    ELSE Record(repo_name, pr_number, d)

\* the detail request came back: pr_data, then the reviews request
ColetarDetail ==
    /\ pc = "detail_get" /\ xst = "returned"
    /\ pr_data' = response.body
    /\ pc' = "reviews_get"
    /\ StartCall
    /\ UNCHANGED << reviews, pr_result, buscaVars, mainVars >>

\* the reviews request came back: filters, record
ColetarReviews ==
    /\ pc = "reviews_get" /\ xst = "returned"
    /\ reviews' = response.body
    /\ pr_result' = Coletar(repos[repo_index], prs[pr_i], pr_data, response.body)
    /\ pc' = "coletar_ret"
    /\ EndCall
    /\ UNCHANGED << pr_data, buscaVars, mainVars >>

\* one of the two requests raised: RequestException is caught and None
\* returned, anything else leaves the function
ColetarExcept ==
    /\ pc \in {"detail_get", "reviews_get"} /\ xst = "raised"
    /\ IF exc \in RequestException
         THEN /\ pc' = "coletar_ret"
              /\ pr_result' = None
              /\ EndCall
         ELSE /\ pc' = "coletar_exc"
              /\ UNCHANGED pr_result
              /\ UNCHANGED execVars
    /\ UNCHANGED << pr_data, reviews, buscaVars, mainVars >>

\* ---- main -------------------------------------------------------------
\* variant: the cap is tested one row late
CapReached_Late(count) == count > PRS_LIMIT

CapReached(count) == count >= PRS_LIMIT

\* where the driver goes on after a failure in a repository
\* variant: a failure ends the whole loop over the repositories
AfterFailure_Stop == "done"

AfterFailure == "main_for"

\* open(CSV_FILE, "w"), writer.writeheader()
MainOpen ==
    /\ pc = "main_open"
    /\ header' = TRUE
    /\ rows' = << >>
    /\ repo_index' = 0
    /\ pc' = "main_for"
    /\ UNCHANGED << page, pr_count, prs, pr_i, analysed, failed, execVars, buscaVars, coletaVars >>

\* for repo_index, repo in enumerate(repos, 1); after the loop the file
\* is closed and the completion message printed
MainFor ==
    /\ pc = "main_for"
    /\ IF repo_index < Len(repos)
         THEN /\ repo_index' = repo_index + 1
              /\ analysed' = Append(analysed, repos[repo_index + 1])
              /\ pc' = "main_while"
         ELSE /\ pc' = "done"
              /\ UNCHANGED << repo_index, analysed >>
    /\ page' = 1
    /\ pr_count' = 0
    /\ prs' = << >>
    /\ pr_i' = 1
    /\ UNCHANGED << header, rows, failed, execVars, buscaVars, coletaVars >>

\* while pr_count < PRS_LIMIT: request the next listing page
MainWhile ==
    /\ pc = "main_while"
    /\ IF ~CapReached(pr_count)
         THEN pc' = "list_get" /\ StartCall
         ELSE pc' = "main_for" /\ UNCHANGED execVars
    /\ UNCHANGED << buscaVars, mainVars, coletaVars >>

\* the listing came back: an empty page ends the repository
MainPage ==
    /\ pc = "list_get" /\ xst = "returned"
    /\ IF Len(response.body) = 0
         THEN pc' = "main_for" /\ UNCHANGED << prs, pr_i >>
         ELSE pc' = "main_prs" /\ prs' = response.body /\ pr_i' = 1
    /\ EndCall
    /\ UNCHANGED << header, rows, repo_index, page, pr_count, analysed, failed,
                    buscaVars, coletaVars >>

\* for pr in prs: pr_data = coletar_dados_pr(repo_name, pr)
MainPrs ==
    /\ pc = "main_prs"
    /\ IF pr_i <= Len(prs)
         THEN /\ pc' = "detail_get"
              /\ StartCall
              /\ pr_data' = NoData
              /\ reviews' = << >>
              /\ pr_result' = None
              /\ UNCHANGED page
         ELSE /\ pc' = "main_while"
              /\ page' = page + 1
              /\ UNCHANGED << execVars, coletaVars >>
    /\ UNCHANGED << header, rows, repo_index, pr_count, prs, pr_i, analysed, failed,
                    buscaVars >>

\* if pr_data: writer.writerow(pr_data); pr_count += 1
\* if pr_count >= PRS_LIMIT: break
MainRow ==
    /\ pc = "coletar_ret"
    /\ LET n == IF pr_result # None THEN pr_count + 1 ELSE pr_count
       IN  /\ rows' = IF pr_result # None THEN Append(rows, pr_result) ELSE rows
           /\ pr_count' = n
           /\ IF CapReached(n)
                THEN pc' = "main_while" /\ page' = page + 1 /\ UNCHANGED pr_i
                ELSE pc' = "main_prs" /\ pr_i' = pr_i + 1 /\ UNCHANGED page
    /\ pr_data' = NoData
    /\ reviews' = << >>
    /\ pr_result' = None
    /\ UNCHANGED << header, repo_index, prs, analysed, failed, execVars, buscaVars >>

\* except Exception: the listing request or the collector raised
MainExcept ==
    /\ \/ pc = "list_get" /\ xst = "raised"
       \/ pc = "coletar_exc"
    /\ pc' = AfterFailure
    /\ failed' = Append(failed, repos[repo_index])
    /\ EndCall
    /\ pr_data' = NoData
    /\ reviews' = << >>
    /\ pr_result' = None
    /\ UNCHANGED << header, rows, repo_index, page, pr_count, prs, pr_i, analysed,
                    buscaVars >>

\* ---- the program ------------------------------------------------------
Init ==
    /\ pc = "buscar_while"
    /\ xst = "idle" /\ tentativa = 0 /\ gets = 0 /\ n403 = 0
    /\ response = NoResponse /\ now = 0 /\ slept = 0 /\ exc = NoExc
    /\ repos = << >> /\ busca_page = 1 /\ items = << >> /\ item_i = 1
    /\ busca_pr_count = 0
    /\ header = FALSE /\ rows = << >> /\ repo_index = 0 /\ page = 1
    /\ pr_count = 0 /\ prs = << >> /\ pr_i = 1 /\ analysed = << >>
    /\ failed = << >>
    /\ pr_data = NoData /\ reviews = << >> /\ pr_result = None

Next ==
    \/ GetOk
    \/ GetHTTPError
    \/ GetConnectionError
    \/ BuscarWhile
    \/ BuscarPage
    \/ BuscarExcept
    \/ BuscarFor
    \/ ObterReturn
    \/ BuscarIf
    \/ ColetarDetail
    \/ ColetarReviews
    \/ ColetarExcept
    \/ MainOpen
    \/ MainFor
    \/ MainWhile
    \/ MainPage
    \/ MainPrs
    \/ MainRow
    \/ MainExcept

Spec == Init /\ [][Next]_vars

\* the interpreter always takes the next step of a sequential program
FairSpec == Spec /\ WF_vars(Next)

\* ---- properties ---------------------------------------------------------
RowsOf(name) == { i \in DOMAIN rows : rows[i].repo_name = name }

IsPrefix(s, t) == Len(s) <= Len(t) /\ SubSeq(t, 1, Len(s)) = s

\* C1: main() runs to completion whatever the API answers: no exception
\* leaves it.
C1_MainNeverCrashes == pc # "crashed"

\* C2: coletar_dados_pr never raises: every call ends by returning a
\* record or None.
C2_ColetarNeverRaises == pc # "coletar_exc"

\* C3: once a search page comes back empty before the target count is
\* reached, buscar_repositorios_populares stops paging and is left.
C3_BuscarStopsOnEmptyPage ==
    (pc = "buscar_for" /\ Len(items) = 0 /\ ~TargetReached(repos)) ~> (pc \notin BuscaPcs)

\* C4: a call answered only with 403 issues exactly MAX_RETRIES requests,
\* then fails with the retry-exhaustion error, and no request follows.
C4_RetryExhaustion ==
    /\ (xst # "idle" /\ n403 = gets) =>
          /\ gets <= MAX_RETRIES
          /\ (gets < MAX_RETRIES => xst = "get")
          /\ (gets = MAX_RETRIES => xst = "raised" /\ exc = "RetryExhausted")
    /\ exc = "RetryExhausted" => (gets = MAX_RETRIES /\ n403 = gets)
    /\ xst # "idle" => gets <= MAX_RETRIES

C4_Witness == xst = "raised" /\ exc = "RetryExhausted" /\ gets = MAX_RETRIES

\* C5: an HTTP error status other than 403 is raised to the caller at once,
\* on any attempt: no pause in that attempt and no request after it.
C5_OtherErrorPropagates ==
    (xst # "idle" /\ response.status \notin {0, 200, 403}) =>
        /\ xst = "raised"
        /\ exc = "HTTPError"
        /\ slept = 0
        /\ gets = n403 + 1

C5_Witness == xst = "raised" /\ response.status = 404 /\ n403 = 2 /\ gets = 3

\* C6: a row is written only for a pull request with at least one review
\* and a review time of at least one hour; the collector returns None for
\* an empty review list and for a review time below one hour.
C6_RowsAreReviewedAndSlow ==
    /\ [](pc = "coletar_ret" /\ pr_result # None =>
            Len(reviews) > 0 /\ pr_data.closed_at - pr_data.created_at >= 3600)
    /\ [](\A i \in DOMAIN rows : rows[i].review_seconds >= 3600)
    /\ [][rows' # rows =>
            pc = "coletar_ret" /\ pr_result # None /\ rows' = Append(rows, pr_result)]_vars

C6_Witness ==
    /\ Len(rows) > 0
    /\ pc = "coletar_ret" /\ pr_result = None
    /\ Len(reviews) > 0 /\ HasTimes(pr_data) /\ ReviewSeconds(pr_data) = 3599

\* C7: at most PRS_LIMIT rows per repository, every row names a discovered
\* repository, rows follow the discovery order and, inside a repository,
\* the listing order (pull request n is the n-th listed).  Consecutive
\* rows in order make all rows in order, and the rows of one repository
\* are then adjacent: more than PRS_LIMIT of them would put the same name
\* PRS_LIMIT places apart.
C7_RowsBoundedAndOrdered ==
    /\ \A i \in 1..(Len(rows) - PRS_LIMIT) :
          rows[i + PRS_LIMIT].repo_name # rows[i].repo_name
    /\ Len(rows) <= Len(repos) * PRS_LIMIT
    /\ \A i \in DOMAIN rows : \E k \in DOMAIN repos : repos[k] = rows[i].repo_name
    /\ \A i \in 1..(Len(rows) - 1) :
          \/ \E k, l \in DOMAIN repos :
                k < l /\ repos[k] = rows[i].repo_name /\ repos[l] = rows[i + 1].repo_name
          \/ /\ rows[i].repo_name = rows[i + 1].repo_name
             /\ rows[i].pr_number < rows[i + 1].pr_number

C7_Witness ==
    /\ pc = "done" /\ Len(repos) = 2
    /\ Cardinality(RowsOf(repos[1])) = PRS_LIMIT
    /\ Cardinality(RowsOf(repos[2])) = PRS_LIMIT

\* C8: a failure while a repository is processed abandons only that
\* repository: the rows written stay and the loop goes on with the next
\* repository, so that every discovered repository is processed.
C8_FailureIsolated ==
    /\ [][((pc = "list_get" /\ xst = "raised") \/ pc = "coletar_exc") =>
            (rows' = rows /\ pc' = "main_for" /\ repo_index' = repo_index)]_vars
    /\ [][IsPrefix(rows, rows')]_vars
    /\ [](pc = "done" => analysed = repos)

C8_Witness ==
    /\ pc = "done" /\ Len(repos) = 2
    /\ Len(failed) > 0 /\ failed[1] = repos[1]
    /\ RowsOf(repos[1]) # {} /\ RowsOf(repos[2]) # {}

\* C9: the discovery yields at most REPOS_LIMIT repositories, in the order
\* of the search ranking, each appended with a closed-pull-request count
\* of at least MIN_PRS_COUNT.
C9_DiscoveryResult ==
    /\ [](Len(repos) <= REPOS_LIMIT)
    /\ [](\A i, j \in DOMAIN repos : i < j => repos[i] < repos[j])
    /\ [][repos' # repos =>
            /\ pc = "buscar_if"
            /\ busca_pr_count >= MIN_PRS_COUNT
            /\ repos' = Append(repos, items[item_i])]_vars

C9_Witness == pc = "main_open" /\ Len(repos) >= 2 /\ repos[2] > repos[1] + 1

\* C10: a successful GET with a remaining quota below 10 pauses for
\* max(reset - now, 0) + 1 and returns that response with no further
\* request; with a quota of 10 or more it returns without a pause.
C10_PrecautionaryPause ==
    xst = "returned" =>
        LET remaining == HeaderGet(response.headers, "Remaining", 0)
            reset_time == HeaderGet(response.headers, "Reset", 0)
        IN  /\ response.status = 200
            /\ gets = n403 + 1
            /\ remaining < 10 =>
                  slept = (IF reset_time > now THEN reset_time - now ELSE 0) + 1
            /\ remaining >= 10 => slept = 0

C10_Witness ==
    /\ xst = "returned" /\ slept = 4
    /\ HeaderGet(response.headers, "Remaining", 0) = 9

====
